---- MODULE Spec2Model ----
(***************************************************************************)
(* A model of pysbrain's SBrainVirtualMachine (src/pysbrain/lib.py).       *)
(*                                                                         *)
(* Python values are records [type, val]: type is the name of the value's  *)
(* Python type and val its payload (the integer of an int, the heap        *)
(* address of a list, 0 otherwise).  A list is an object with identity:    *)
(* `heap` maps addresses to list contents, and the attributes data_t and   *)
(* exec_t hold addresses, so two attributes may name the same list.  An    *)
(* attribute that was never assigned holds Unbound, and reading it raises  *)
(* AttributeError.                                                         *)
(*                                                                         *)
(* data_s and jump_s are lists only the machine itself holds (no method    *)
(* takes or returns them), so they are modelled by value.                  *)
(***************************************************************************)
EXTENDS Integers, Sequences, FiniteSets

VARIABLES
    heap,            \* list objects: heap[a] is the contents of the list at address a
    data_t,          \* self.data_t: address of the data tape list
    _len_data_t,     \* self._len_data_t
    data_s,          \* self.data_s: the data stack list
    _len_data_s,     \* self._len_data_s
    exec_t,          \* self.exec_t: address of the executable tape list
    _len_exec_t,     \* self._len_exec_t
    jump_s,          \* self.jump_s
    _len_jump_s,     \* self._len_jump_s
    data_p,          \* self.data_p
    inst_p,          \* self.inst_p
    jump_p,          \* self.jump_p
    auxi_r,          \* self.auxi_r
    op,              \* the method that ran last
    arg,             \* the argument it was called with
    ret,             \* the value it returned
    raised,          \* the exception it raised, "none" if it returned
    pre_data_s,      \* data_s as it was when the last method was entered
    pre_len_data_s,  \* _len_data_s as it was when the last method was entered
    empty_pops,      \* consecutive pop_data_s calls entered with _len_data_s = 0
    status,          \* the engine's state: Ready, Running, Halted or Faulted
    fault,           \* the kind of fault of a Faulted engine, "none" otherwise
    trace,           \* the values of inst_p of the instructions step() has executed
    tape0            \* the contents of the data tape when the engine was started

machine == <<heap, data_t, _len_data_t, data_s, _len_data_s, exec_t, _len_exec_t,
             jump_s, _len_jump_s, data_p, inst_p, jump_p, auxi_r>>
call    == <<op, arg, ret, raised, pre_data_s, pre_len_data_s, empty_pops>>
engine  == <<status, fault, trace, tape0>>
vars    == <<machine, call, engine>>

----------------------------------------------------------------------------
(* Bounds of the model *)

MaxLists  == 1    \* list objects the caller creates and passes to the loads
MaxLen    == 2    \* length of a list the caller creates
MaxDepth  == 2    \* values pushed on the data stack at one time
MaxPops   == 2    \* empty_pops stops counting here

----------------------------------------------------------------------------
(* Python values *)

PyInt(n)  == [type |-> "int", val |-> n]
PyList(a) == [type |-> "list", val |-> a]
None      == [type |-> "NoneType", val |-> 0]
Unbound   == [type |-> "unbound", val |-> 0]

\* the integers the caller writes, pushes and puts on tapes
IntInputs == {PyInt(0), PyInt(1)}

\* values whose type is not int: a str, a float, and True (type bool)
NonIntInputs == {[type |-> "str", val |-> 0], [type |-> "float", val |-> 1],
                 [type |-> "bool", val |-> 1]}

ValueInputs == IntInputs \cup NonIntInputs

\* the lists of ints the caller creates (the docstrings' "a list of ints")
TapeInputs == UNION {[1..n -> IntInputs] : n \in 0..MaxLen}

\* isinstance(value, int) in place of the type test: True passes as an int
IsInstanceInt(v) == v.type \in {"int", "bool"}

\* `type(value) is not int` is ~IsInt(value)
IsInt(v) == v.type = "int"

----------------------------------------------------------------------------
(* __init__, lines 9-22.  Lines 10-20 assign the four lists and their      *)
(* counters.  Line 22 unpacks the int 0 into four targets: unpacking a     *)
(* non-iterable raises TypeError before any target is assigned, so         *)
(* __init__ raises and data_p, inst_p, jump_p and auxi_r stay unbound.     *)
(* The object that __new__ made keeps the attributes of lines 10-20.       *)

\* addresses of the lists __init__ makes for data_t and exec_t
InitDataT == 1
InitExecT == 2

\* line 22: can the right-hand side be unpacked into n targets?
Unpacks(v, n) == v.type = "list" /\ Len(heap[v.val]) = n

Init ==
    /\ heap = <<(<<PyInt(0)>>), (<<PyInt(0)>>)>>
    /\ data_t = InitDataT
    /\ _len_data_t = 1
    /\ data_s = <<PyInt(0)>>
    /\ _len_data_s = 0
    /\ exec_t = InitExecT
    /\ _len_exec_t = 1
    /\ jump_s = <<PyInt(0)>>
    /\ _len_jump_s = 0
    /\ data_p = IF Unpacks(PyInt(0), 4) THEN PyInt(0) ELSE Unbound
    /\ inst_p = IF Unpacks(PyInt(0), 4) THEN PyInt(0) ELSE Unbound
    /\ jump_p = IF Unpacks(PyInt(0), 4) THEN PyInt(0) ELSE Unbound
    /\ auxi_r = IF Unpacks(PyInt(0), 4) THEN PyInt(0) ELSE Unbound
    /\ op = "__init__"
    /\ arg = None
    /\ ret = None
    /\ raised = IF Unpacks(PyInt(0), 4) THEN "none" ELSE "TypeError"
    /\ pre_data_s = <<PyInt(0)>>
    /\ pre_len_data_s = 0
    /\ empty_pops = 0
    /\ status = "Ready"
    /\ fault = "none"
    /\ trace = <<>>
    /\ tape0 = <<>>

----------------------------------------------------------------------------
(* What every call records *)

Called(name, a, r, e) ==
    /\ op' = name
    /\ arg' = a
    /\ ret' = r
    /\ raised' = e
    /\ pre_data_s' = data_s
    /\ pre_len_data_s' = _len_data_s
    /\ empty_pops' = IF name = "pop_data_s" /\ _len_data_s = 0
                     THEN (IF empty_pops < MaxPops THEN empty_pops + 1 ELSE empty_pops)
                     ELSE 0
    /\ UNCHANGED engine

\* a call that raises e before it has assigned anything
Raises(name, a, e) == Called(name, a, None, e) /\ UNCHANGED machine

----------------------------------------------------------------------------
(* The lists a caller can pass to a load: one it created earlier, or, while *)
(* it has created fewer than MaxLists, a new one.  Each is a pair of the    *)
(* heap holding the list and the list's address.                            *)

CallerLists ==
    {<<heap, a>> : a \in (InitExecT + 1)..Len(heap)}
    \cup (IF Len(heap) < InitExecT + MaxLists
          THEN {<<Append(heap, t), Len(heap) + 1>> : t \in TapeInputs}
          ELSE {})

\* load_data_tape resetting inst_p where it should reset data_p
load_data_tape_inst_p ==
    \E l \in CallerLists :
        /\ heap' = l[1]
        /\ data_t' = l[2]
        /\ _len_data_t' = Len(l[1][l[2]])
        /\ inst_p' = PyInt(0)
        /\ UNCHANGED <<data_s, _len_data_s, exec_t, _len_exec_t, jump_s, _len_jump_s,
                       data_p, jump_p, auxi_r>>
        /\ Called("load_data_tape", PyList(l[2]), None, "none")

(* load_data_tape, lines 24-32 *)
load_data_tape ==
    \E l \in CallerLists :
        /\ heap' = l[1]
        /\ data_t' = l[2]
        /\ _len_data_t' = Len(l[1][l[2]])
        /\ data_p' = PyInt(0)
        /\ UNCHANGED <<data_s, _len_data_s, exec_t, _len_exec_t, jump_s, _len_jump_s,
                       inst_p, jump_p, auxi_r>>
        /\ Called("load_data_tape", PyList(l[2]), None, "none")

\* load_executable_tape taking the length of the tape it replaces
load_executable_tape_stale_len ==
    \E l \in CallerLists :
        /\ heap' = l[1]
        /\ exec_t' = l[2]
        /\ _len_exec_t' = Len(heap[exec_t])
        /\ inst_p' = PyInt(0)
        /\ UNCHANGED <<data_t, _len_data_t, data_s, _len_data_s, jump_s, _len_jump_s,
                       data_p, jump_p, auxi_r>>
        /\ Called("load_executable_tape", PyList(l[2]), None, "none")

\* load_executable_tape resetting data_p as well as inst_p
load_executable_tape_both ==
    \E l \in CallerLists :
        /\ heap' = l[1]
        /\ exec_t' = l[2]
        /\ _len_exec_t' = Len(l[1][l[2]])
        /\ inst_p' = PyInt(0)
        /\ data_p' = PyInt(0)
        /\ UNCHANGED <<data_t, _len_data_t, data_s, _len_data_s, jump_s, _len_jump_s,
                       jump_p, auxi_r>>
        /\ Called("load_executable_tape", PyList(l[2]), None, "none")

(* load_executable_tape, lines 34-42 *)
load_executable_tape ==
    \E l \in CallerLists :
        /\ heap' = l[1]
        /\ exec_t' = l[2]
        /\ _len_exec_t' = Len(l[1][l[2]])
        /\ inst_p' = PyInt(0)
        /\ UNCHANGED <<data_t, _len_data_t, data_s, _len_data_s, jump_s, _len_jump_s,
                       data_p, jump_p, auxi_r>>
        /\ Called("load_executable_tape", PyList(l[2]), None, "none")

----------------------------------------------------------------------------
(* list[i] with a non-negative i: IndexError unless i < len(list) *)
InRange(t, i) == i < Len(t)

\* write_data_t storing into the last cell, self.data_t[-1], not the cell at data_p
write_data_t_last ==
    \E value \in ValueInputs :
        IF ~IsInt(value)
        THEN Raises("write_data_t", value, "ValueError")
        ELSE IF data_p = Unbound
        THEN Raises("write_data_t", value, "AttributeError")
        ELSE IF ~InRange(heap[data_t], data_p.val)
        THEN Raises("write_data_t", value, "IndexError")
        ELSE /\ heap' = [heap EXCEPT ![data_t][Len(heap[data_t])] = value]
             /\ UNCHANGED <<data_t, _len_data_t, data_s, _len_data_s, exec_t, _len_exec_t,
                            jump_s, _len_jump_s, data_p, inst_p, jump_p, auxi_r>>
             /\ Called("write_data_t", value, None, "none")

(* write_data_t, lines 44-52.  Line 52 evaluates self.data_t, then          *)
(* self.data_p (AttributeError when unbound), then stores into the list     *)
(* (IndexError when data_p is not an index of it).                          *)
write_data_t ==
    \E value \in ValueInputs :
        IF ~IsInt(value)
        THEN Raises("write_data_t", value, "ValueError")
        ELSE IF data_p = Unbound
        THEN Raises("write_data_t", value, "AttributeError")
        ELSE IF ~InRange(heap[data_t], data_p.val)
        THEN Raises("write_data_t", value, "IndexError")
        ELSE /\ heap' = [heap EXCEPT ![data_t][data_p.val + 1] = value]
             /\ UNCHANGED <<data_t, _len_data_t, data_s, _len_data_s, exec_t, _len_exec_t,
                            jump_s, _len_jump_s, data_p, inst_p, jump_p, auxi_r>>
             /\ Called("write_data_t", value, None, "none")

(* read_data_t, lines 54-60.  Line 59 reads self.data_p (AttributeError     *)
(* when unbound); when the test fails the method falls off its end and      *)
(* returns None.                                                            *)
ReadGuard(len, p) == len >= p

read_data_t ==
    IF data_p = Unbound
    THEN Raises("read_data_t", None, "AttributeError")
    ELSE IF ~ReadGuard(_len_data_t, data_p.val)
    THEN Called("read_data_t", None, None, "none") /\ UNCHANGED machine
    ELSE IF ~InRange(heap[data_t], data_p.val)
    THEN Raises("read_data_t", None, "IndexError")
    ELSE Called("read_data_t", None, heap[data_t][data_p.val + 1], "none")
         /\ UNCHANGED machine

----------------------------------------------------------------------------
(* push_data_s, lines 62-71 *)

\* list.insert(0, value) in place of list.append
PushedFront(s, v) == <<v>> \o s

\* line 70: list.append
Pushed(s, v) == Append(s, v)

\* push_data_s counting the push on the jump stack's counter
push_data_s_jump ==
    \E value \in ValueInputs :
        IF ~IsInt(value)
        THEN Raises("push_data_s", value, "ValueError")
        ELSE /\ _len_data_s < MaxDepth
             /\ data_s' = Pushed(data_s, value)
             /\ _len_data_s' = _len_data_s + 1
             /\ _len_jump_s' = _len_jump_s + 1
             /\ UNCHANGED <<heap, data_t, _len_data_t, exec_t, _len_exec_t,
                            jump_s, data_p, inst_p, jump_p, auxi_r>>
             /\ Called("push_data_s", value, None, "none")

push_data_s ==
    \E value \in ValueInputs :
        IF ~IsInt(value)
        THEN Raises("push_data_s", value, "ValueError")
        ELSE /\ _len_data_s < MaxDepth
             /\ data_s' = Pushed(data_s, value)
             /\ _len_data_s' = _len_data_s + 1
             /\ UNCHANGED <<heap, data_t, _len_data_t, exec_t, _len_exec_t,
                            jump_s, _len_jump_s, data_p, inst_p, jump_p, auxi_r>>
             /\ Called("push_data_s", value, None, "none")

(* pop_data_s, lines 73-83.  Line 80 decrements the counter before line 81  *)
(* pops the list; list.pop raises IndexError on an empty list.              *)

\* `>= 0` in place of `> 0`
NonEmptyOrZero(n) == n >= 0

\* line 79
NonEmpty(n) == n > 0

\* line 81: list.pop removes and returns the last item
Top(s)    == s[Len(s)]
Popped(s) == SubSeq(s, 1, Len(s) - 1)

pop_data_s ==
    IF NonEmpty(_len_data_s)
    THEN IF Len(data_s) = 0
         THEN /\ _len_data_s' = _len_data_s - 1
              /\ UNCHANGED <<heap, data_t, _len_data_t, data_s, exec_t, _len_exec_t,
                             jump_s, _len_jump_s, data_p, inst_p, jump_p, auxi_r>>
              /\ Called("pop_data_s", None, None, "IndexError")
         ELSE /\ _len_data_s' = _len_data_s - 1
              /\ data_s' = Popped(data_s)
              /\ UNCHANGED <<heap, data_t, _len_data_t, exec_t, _len_exec_t,
                             jump_s, _len_jump_s, data_p, inst_p, jump_p, auxi_r>>
              /\ Called("pop_data_s", None, Top(data_s), "none")
    ELSE Called("pop_data_s", None, PyInt(0), "none") /\ UNCHANGED machine

----------------------------------------------------------------------------
Next ==
    \/ load_data_tape
    \/ load_executable_tape
    \/ write_data_t
    \/ read_data_t
    \/ push_data_s
    \/ pop_data_s

Spec == Init /\ [][Next]_vars

----------------------------------------------------------------------------
(* The values on the data stack: the _len_data_s last items of data_s *)
StackOf(s, n) == SubSeq(s, Len(s) - n + 1, Len(s))

\* C1: a pop_data_s entered with the depth counter at 0 returns 0, raises
\* nothing and leaves the depth counter at 0 and the stack list as it was,
\* however many such pops came before it.
C1_EmptyPopReturnsZero ==
    (op = "pop_data_s" /\ pre_len_data_s = 0) =>
        /\ raised = "none"
        /\ ret = PyInt(0)
        /\ _len_data_s = 0
        /\ data_s = pre_data_s

\* MaxPops consecutive pops of the empty stack have returned
C1_Witness ==
    /\ op = "pop_data_s"
    /\ pre_len_data_s = 0
    /\ empty_pops = MaxPops
    /\ ret = PyInt(0)

\* C2: the data stack is LIFO.  A push_data_s of an int puts it on top of
\* the stack; a pop_data_s of a non-empty stack returns the top value and
\* removes it; a pop_data_s right after push_data_s(v) returns v and leaves
\* data_s and _len_data_s as they were before the push.
C2_Step ==
    /\ (op' = "push_data_s" /\ arg'.type = "int") =>
           /\ raised' = "none"
           /\ _len_data_s' = _len_data_s + 1
           /\ StackOf(data_s', _len_data_s') =
                  Append(StackOf(data_s, _len_data_s), arg')
    /\ (op' = "pop_data_s" /\ _len_data_s > 0) =>
           /\ raised' = "none"
           /\ ret' = StackOf(data_s, _len_data_s)[_len_data_s]
           /\ _len_data_s' = _len_data_s - 1
           /\ StackOf(data_s', _len_data_s') =
                  SubSeq(StackOf(data_s, _len_data_s), 1, _len_data_s - 1)
    /\ (op = "push_data_s" /\ raised = "none" /\ op' = "pop_data_s") =>
           /\ ret' = arg
           /\ data_s' = pre_data_s
           /\ _len_data_s' = pre_len_data_s

C2_LIFO == [][C2_Step]_vars

\* 0 then 1 were pushed, and the pop returned 1 and left 0 on top
C2_Witness ==
    /\ op = "pop_data_s"
    /\ pre_len_data_s = 2
    /\ StackOf(pre_data_s, 2) = <<PyInt(0), PyInt(1)>>
    /\ ret = PyInt(1)
    /\ StackOf(data_s, _len_data_s) = <<PyInt(0)>>

\* C3: the depth counter _len_data_s equals the length of the list data_s.
C3_DepthEqualsLength == _len_data_s = Len(data_s)

\* C4: write_data_t and push_data_s called with a value that is not an int
\* raise ValueError and leave the data tape, the data stack and the depth
\* counter as they were.
C4_Step ==
    (op' \in {"write_data_t", "push_data_s"} /\ arg'.type # "int") =>
        /\ raised' = "ValueError"
        /\ UNCHANGED <<heap, data_t, _len_data_t, data_s, _len_data_s>>

C4_NonIntRejected == [][C4_Step]_vars

\* True was offered to a tape whose cell at data_p an int could be written to
C4_Witness ==
    /\ op = "write_data_t"
    /\ arg.type = "bool"
    /\ raised = "ValueError"
    /\ data_p = PyInt(0)
    /\ Len(heap[data_t]) = MaxLen

\* C5: read_data_t (with data_p assigned) raises nothing and returns an int:
\* the cell at data_p when data_p is inside the tape, 0 when data_p is at or
\* beyond its length.
C5_ReadNeverRaises ==
    (op = "read_data_t" /\ data_p # Unbound) =>
        /\ raised = "none"
        /\ ret.type = "int"
        /\ (data_p.val < Len(heap[data_t])) => ret = heap[data_t][data_p.val + 1]
        /\ (data_p.val >= Len(heap[data_t])) => ret = PyInt(0)

\* C6: construction raises nothing and leaves the data tape [0], the data
\* stack, the executable tape and the jump stack empty, and the four
\* registers at 0.
C6_Constructed ==
    (op = "__init__") =>
        /\ raised = "none"
        /\ heap[data_t] = <<PyInt(0)>>
        /\ data_s = <<>>
        /\ heap[exec_t] = <<>>
        /\ jump_s = <<>>
        /\ data_p = PyInt(0)
        /\ inst_p = PyInt(0)
        /\ jump_p = PyInt(0)
        /\ auxi_r = PyInt(0)

\* C7: load_data_tape(values) raises nothing and leaves data_t the list
\* values, _len_data_t its length and data_p 0; load_executable_tape does
\* the same for exec_t, _len_exec_t and inst_p; in every state, so also when
\* loads are repeated.
C7_Loaded ==
    /\ (op = "load_data_tape") =>
           /\ raised = "none"
           /\ arg.type = "list"
           /\ data_t = arg.val
           /\ _len_data_t = Len(heap[arg.val])
           /\ data_p = PyInt(0)
    /\ (op = "load_executable_tape") =>
           /\ raised = "none"
           /\ arg.type = "list"
           /\ exec_t = arg.val
           /\ _len_exec_t = Len(heap[arg.val])
           /\ inst_p = PyInt(0)

\* load_data_tape has loaded a list of MaxLen cells into a machine that
\* load_executable_tape had loaded before
C7_Witness ==
    /\ op = "load_data_tape"
    /\ inst_p = PyInt(0)
    /\ data_p = PyInt(0)
    /\ _len_data_t = MaxLen
    /\ data_t > InitExecT

\* C8: write_data_t of an int (with data_p assigned) raises nothing, and
\* afterwards the tape reaches past data_p and holds the value at data_p.
C8_WriteGrows ==
    (op = "write_data_t" /\ arg.type = "int" /\ data_p # Unbound) =>
        /\ raised = "none"
        /\ Len(heap[data_t]) > data_p.val
        /\ heap[data_t][data_p.val + 1] = arg

\* C9: once load_executable_tape has run (inst_p is assigned by it alone),
\* no write_data_t, read_data_t, push_data_s, pop_data_s or load_data_tape
\* changes the executable tape's contents or its length counter.
C9_Step ==
    (/\ inst_p # Unbound
     /\ op' \in {"write_data_t", "read_data_t", "push_data_s", "pop_data_s",
                 "load_data_tape"}) =>
        /\ heap'[exec_t'] = heap[exec_t]
        /\ _len_exec_t' = _len_exec_t

C9_ExecTapeImmutable == [][C9_Step]_vars

\* C10: data_p is an index between 0 and the length of the data tape.
C10_DataPointerInRange ==
    /\ data_p.type = "int"
    /\ 0 <= data_p.val
    /\ data_p.val <= Len(heap[data_t])

----------------------------------------------------------------------------
(* The execution engine: step() and run(), spec sections 3, 4.1, 4.3 and    *)
(* 4.4.  The source declares the engine's state (exec_t, jump_s, inst_p,    *)
(* jump_p) and holds no instruction table and no dispatch loop; what        *)
(* follows is the engine as the specification describes it, acting on the   *)
(* state the source declares.  The input and output instructions act on     *)
(* streams outside the machine and are left out of the programs run here.   *)

MaxProg  == 3     \* length of the programs enumerated in full
MaxCell  == 2     \* largest cell value on the data tape the engine starts with
MaxSteps == 14    \* instructions one run executes

\* the opcode table; the source fixes only loop-enter, "[ (4)" (line 19)
OpLeft   == 0
OpRight  == 1
OpDec    == 2
OpInc    == 3
OpEnter  == 4
OpExit   == 5
OpPush   == 6
OpPop    == 7
OpHalt   == 8
Opcodes  == {OpLeft, OpRight, OpDec, OpInc, OpEnter, OpExit, OpPush, OpPop, OpHalt}

\* cells are signed integers of a fixed width and wrap (section 3)
CellBits == 8
Wrap(n)  == ((n + 2^(CellBits - 1)) % 2^CellBits) - 2^(CellBits - 1)

\* Tape.read (section 4.1): the stored value, 0 at or beyond the length
CellAt(t, i) == IF i < Len(t) THEN t[i + 1] ELSE PyInt(0)

\* growth that stops one cell short of index i
GrownShort(t, i) == t \o [k \in 1..(i - Len(t)) |-> PyInt(0)]

\* Tape.write (section 4.1): the tape grows with 0 cells up to index i
Grown(t, i) == t \o [k \in 1..(i + 1 - Len(t)) |-> PyInt(0)]
Written(t, i, v) == [Grown(t, i) EXCEPT ![i + 1] = v]

\* a scan that stops at the first loop-exit, whatever the nesting
FirstExit(prog, pos, depth) ==
    IF \E j \in pos..(Len(prog) - 1) : prog[j + 1] = PyInt(OpExit)
    THEN CHOOSE j \in pos..(Len(prog) - 1) :
             /\ prog[j + 1] = PyInt(OpExit)
             /\ \A k \in pos..(j - 1) : prog[k + 1] # PyInt(OpExit)
    ELSE Len(prog)

\* The loop-matching scan (section 4.3): from position pos with the nesting
\* counter at depth, each loop-enter increments the counter and each
\* loop-exit decrements it; the position where it reaches 0 is the matching
\* exit.  Len(prog) when the scan runs off the end of the tape.
RECURSIVE ScanFrom(_, _, _)
ScanFrom(prog, pos, depth) ==
    IF pos >= Len(prog)
    THEN Len(prog)
    ELSE LET d == IF prog[pos + 1] = PyInt(OpEnter) THEN depth + 1
                  ELSE IF prog[pos + 1] = PyInt(OpExit) THEN depth - 1
                  ELSE depth
         IN  IF d = 0 THEN pos ELSE ScanFrom(prog, pos + 1, d)

Scan(prog, pos, depth) == ScanFrom(prog, pos, depth)

\* the address on top of the jump stack; 0 when it is empty, as a pop gives
JumpTop == IF NonEmpty(_len_jump_s) THEN Top(jump_s).val ELSE 0

\* step() has executed the instruction at inst_p
Stepped(st, f) ==
    /\ status' = st
    /\ fault' = f
    /\ trace' = Append(trace, inst_p.val)
    /\ UNCHANGED <<tape0, call>>

\* the data tape becomes t
TapeIs(t) ==
    /\ heap' = [heap EXCEPT ![data_t] = t]
    /\ _len_data_t' = Len(t)

\* the parts of the machine no instruction touches
Fixed == UNCHANGED <<data_t, exec_t, _len_exec_t, auxi_r>>

step ==
    /\ status \in {"Ready", "Running"}
    /\ Len(trace) < MaxSteps
    /\ Fixed
    /\ LET prog == heap[exec_t]
           tape == heap[data_t]
           cell == CellAt(tape, data_p.val)
           next == PyInt(inst_p.val + 1)
       IN
       IF inst_p.val >= Len(prog)
       THEN \* crossing the end terminates execution normally
            /\ status' = "Halted"
            /\ UNCHANGED <<heap, _len_data_t, data_s, _len_data_s, jump_s, _len_jump_s,
                           data_p, inst_p, jump_p, fault, trace, tape0, call>>
       ELSE
       CASE prog[inst_p.val + 1] = PyInt(OpRight) ->
                /\ data_p' = PyInt(data_p.val + 1)
                /\ TapeIs(Grown(tape, data_p.val + 1))
                /\ inst_p' = next
                /\ UNCHANGED <<data_s, _len_data_s, jump_s, _len_jump_s, jump_p>>
                /\ Stepped("Running", "none")
         [] prog[inst_p.val + 1] = PyInt(OpLeft) ->
                /\ data_p' = IF data_p.val > 0 THEN PyInt(data_p.val - 1) ELSE PyInt(0)
                /\ inst_p' = next
                /\ UNCHANGED <<heap, _len_data_t, data_s, _len_data_s, jump_s, _len_jump_s,
                               jump_p>>
                /\ Stepped("Running", "none")
         [] prog[inst_p.val + 1] = PyInt(OpInc) ->
                /\ TapeIs(Written(tape, data_p.val, PyInt(Wrap(cell.val + 1))))
                /\ inst_p' = next
                /\ UNCHANGED <<data_s, _len_data_s, jump_s, _len_jump_s, data_p, jump_p>>
                /\ Stepped("Running", "none")
         [] prog[inst_p.val + 1] = PyInt(OpDec) ->
                /\ TapeIs(Written(tape, data_p.val, PyInt(Wrap(cell.val - 1))))
                /\ inst_p' = next
                /\ UNCHANGED <<data_s, _len_data_s, jump_s, _len_jump_s, data_p, jump_p>>
                /\ Stepped("Running", "none")
         [] prog[inst_p.val + 1] = PyInt(OpPush) ->
                /\ data_s' = Pushed(data_s, cell)
                /\ _len_data_s' = _len_data_s + 1
                /\ inst_p' = next
                /\ UNCHANGED <<heap, _len_data_t, jump_s, _len_jump_s, data_p, jump_p>>
                /\ Stepped("Running", "none")
         [] prog[inst_p.val + 1] = PyInt(OpPop) ->
                /\ IF NonEmpty(_len_data_s)
                   THEN /\ TapeIs(Written(tape, data_p.val, Top(data_s)))
                        /\ data_s' = Popped(data_s)
                        /\ _len_data_s' = _len_data_s - 1
                   ELSE /\ TapeIs(Written(tape, data_p.val, PyInt(0)))
                        /\ UNCHANGED <<data_s, _len_data_s>>
                /\ inst_p' = next
                /\ UNCHANGED <<jump_s, _len_jump_s, data_p, jump_p>>
                /\ Stepped("Running", "none")
         [] prog[inst_p.val + 1] = PyInt(OpEnter) ->
                IF cell.val = 0
                THEN LET m == Scan(prog, inst_p.val + 1, 1)
                     IN  /\ jump_p' = PyInt(m)
                         /\ UNCHANGED <<heap, _len_data_t, data_s, _len_data_s,
                                        jump_s, _len_jump_s, data_p>>
                         /\ IF m < Len(prog)
                            THEN inst_p' = PyInt(m + 1) /\ Stepped("Running", "none")
                            ELSE inst_p' = inst_p /\ Stepped("Faulted", "UnbalancedLoop")
                ELSE /\ jump_s' = Pushed(jump_s, inst_p)
                     /\ _len_jump_s' = _len_jump_s + 1
                     /\ inst_p' = next
                     /\ UNCHANGED <<heap, _len_data_t, data_s, _len_data_s, data_p, jump_p>>
                     /\ Stepped("Running", "none")
         [] prog[inst_p.val + 1] = PyInt(OpExit) ->
                IF cell.val # 0
                THEN /\ inst_p' = PyInt(JumpTop)
                     /\ UNCHANGED <<heap, _len_data_t, data_s, _len_data_s,
                                    jump_s, _len_jump_s, data_p, jump_p>>
                     /\ Stepped("Running", "none")
                ELSE /\ IF NonEmpty(_len_jump_s)
                        THEN jump_s' = Popped(jump_s) /\ _len_jump_s' = _len_jump_s - 1
                        ELSE UNCHANGED <<jump_s, _len_jump_s>>
                     /\ inst_p' = next
                     /\ UNCHANGED <<heap, _len_data_t, data_s, _len_data_s, data_p, jump_p>>
                     /\ Stepped("Running", "none")
         [] prog[inst_p.val + 1] = PyInt(OpHalt) ->
                /\ UNCHANGED <<heap, _len_data_t, data_s, _len_data_s, jump_s, _len_jump_s,
                               data_p, inst_p, jump_p>>
                /\ Stepped("Halted", "none")
         [] OTHER ->
                /\ UNCHANGED <<heap, _len_data_t, data_s, _len_data_s, jump_s, _len_jump_s,
                               data_p, inst_p, jump_p>>
                /\ Stepped("Faulted", "InvalidOpcode")

(* The programs and data tapes the engine is started with *)

Code(ops) == [k \in 1..Len(ops) |-> PyInt(ops[k])]

CoreOps == {OpInc, OpDec, OpRight, OpEnter, OpExit}
ShortPrograms == UNION {[1..n -> {PyInt(c) : c \in CoreOps}] : n \in 0..MaxProg}

\* +++++ > [ - < + > ] <
CopyProgram ==
    Code(<<OpInc, OpInc, OpInc, OpInc, OpInc, OpRight,
           OpEnter, OpDec, OpLeft, OpInc, OpRight, OpExit, OpLeft>>)

\* [ - > + < ]
MoveProgram == Code(<<OpEnter, OpDec, OpRight, OpInc, OpLeft, OpExit>>)

\* > [ + push [ + ] pop > ] +
NestedProgram ==
    Code(<<OpRight, OpEnter, OpInc, OpPush, OpEnter, OpInc, OpExit, OpPop,
           OpRight, OpExit, OpInc>>)

\* + push > pop halt +
StackProgram == Code(<<OpInc, OpPush, OpRight, OpPop, OpHalt, OpInc>>)

\* an instruction outside the table
BadProgram == <<PyInt(OpInc), PyInt(OpHalt + 1)>>

Programs ==
    ShortPrograms \cup {CopyProgram, MoveProgram, NestedProgram, StackProgram, BadProgram}

RunTapes == {<<>>} \cup {<<PyInt(c)>> : c \in 0..MaxCell}

\* addresses of the lists loaded into the engine
RunDataT == 3
RunExecT == 4

(* The machine as __init__, load_data_tape(d) and load_executable_tape(p)    *)
(* leave it: lines 10-20, 30-32 and 40-42.                                   *)
RunInit ==
    \E d \in RunTapes, p \in Programs :
        /\ heap = <<(<<PyInt(0)>>), (<<PyInt(0)>>), d, p>>
        /\ data_t = RunDataT
        /\ _len_data_t = Len(d)
        /\ data_s = <<PyInt(0)>>
        /\ _len_data_s = 0
        /\ exec_t = RunExecT
        /\ _len_exec_t = Len(p)
        /\ jump_s = <<PyInt(0)>>
        /\ _len_jump_s = 0
        /\ data_p = PyInt(0)
        /\ inst_p = PyInt(0)
        /\ jump_p = Unbound
        /\ auxi_r = Unbound
        /\ op = "load_executable_tape"
        /\ arg = PyList(RunExecT)
        /\ ret = None
        /\ raised = "none"
        /\ pre_data_s = <<PyInt(0)>>
        /\ pre_len_data_s = 0
        /\ empty_pops = 0
        /\ status = "Ready"
        /\ fault = "none"
        /\ trace = <<>>
        /\ tape0 = d

\* run() calls step() until the status is terminal
RunNext == step

RunSpec == RunInit /\ [][RunNext]_vars

----------------------------------------------------------------------------
(* The matching loop-exit, stated without the scan: the first position j    *)
(* after the loop-enter at i where positions i..j hold as many loop-exits   *)
(* as loop-enters.                                                          *)
CountOf(prog, a, b, code) == Cardinality({k \in a..b : prog[k + 1] = PyInt(code)})

Closes(prog, i, j) ==
    /\ prog[j + 1] = PyInt(OpExit)
    /\ CountOf(prog, i, j, OpEnter) = CountOf(prog, i, j, OpExit)

HasMatch(prog, i) == \E j \in (i + 1)..(Len(prog) - 1) : Closes(prog, i, j)

MatchOf(prog, i) ==
    CHOOSE j \in (i + 1)..(Len(prog) - 1) :
        /\ Closes(prog, i, j)
        /\ \A k \in (i + 1)..(j - 1) : ~Closes(prog, i, k)

\* step() is about to execute a loop-enter with the cell at data_p equal to 0
AtZeroEnter ==
    /\ status \in {"Ready", "Running"}
    /\ inst_p.val < Len(heap[exec_t])
    /\ heap[exec_t][inst_p.val + 1] = PyInt(OpEnter)
    /\ CellAt(heap[data_t], data_p.val) = PyInt(0)

\* C11: a step that executes a loop-enter with the cell at data_p equal to 0
\* and a matching loop-exit ahead leaves inst_p just past that loop-exit,
\* executes nothing else, and leaves the data tape, the data stack, the jump
\* stack and data_p as they were.
C11_Step ==
    (AtZeroEnter /\ HasMatch(heap[exec_t], inst_p.val) /\ trace' # trace) =>
        /\ inst_p' = PyInt(MatchOf(heap[exec_t], inst_p.val) + 1)
        /\ trace' = Append(trace, inst_p.val)
        /\ status' = "Running"
        /\ UNCHANGED <<heap, data_t, _len_data_t, data_s, _len_data_s,
                       jump_s, _len_jump_s, data_p>>

C11_ZeroLoopSkipped == [][C11_Step]_vars

\* the outer loop of NestedProgram, which holds a loop, an increment and a
\* push, was skipped from its loop-enter at 1 to just past its loop-exit at 9
C11_Witness ==
    /\ heap[exec_t] = NestedProgram
    /\ trace = <<0, 1>>
    /\ inst_p = PyInt(10)
    /\ _len_data_s = 0

----------------------------------------------------------------------------
\* the loop instructions of prog are balanced: no prefix holds more
\* loop-exits than loop-enters, and the whole holds as many of each
WellBalanced(prog) ==
    /\ \A j \in 0..(Len(prog) - 1) :
           CountOf(prog, 0, j, OpExit) <= CountOf(prog, 0, j, OpEnter)
    /\ CountOf(prog, 0, Len(prog) - 1, OpExit) = CountOf(prog, 0, Len(prog) - 1, OpEnter)

Without(prog, i) == SubSeq(prog, 1, i) \o SubSeq(prog, i + 2, Len(prog))

\* prog is balanced but for one loop-enter
OneUnmatchedEnter(prog) ==
    \E i \in 0..(Len(prog) - 1) :
        prog[i + 1] = PyInt(OpEnter) /\ WellBalanced(Without(prog, i))

\* C12: a run of a well-balanced program never faults with UnbalancedLoop,
\* and a run of a program with one unmatched loop-enter never halts normally
\* and faults with nothing but UnbalancedLoop, whatever the data tape holds.
C12_UnbalancedFaults ==
    /\ WellBalanced(heap[exec_t]) => fault # "UnbalancedLoop"
    /\ OneUnmatchedEnter(heap[exec_t]) =>
           /\ status # "Halted"
           /\ status = "Faulted" => fault = "UnbalancedLoop"

----------------------------------------------------------------------------
\* [ - ]
CountdownProgram == Code(<<OpEnter, OpDec, OpExit>>)

\* how many times step() executed the instruction at position i
Executions(i) == Cardinality({k \in 1..Len(trace) : trace[k] = i})

\* a run of a loop whose body takes 1 off the cell it was entered on, started
\* on a one-cell tape holding n > 0, has ended normally
CountdownDone ==
    /\ heap[exec_t] \in {CountdownProgram, MoveProgram}
    /\ Len(tape0) = 1
    /\ tape0[1].val > 0
    /\ status = "Halted"

\* C13: when such a run has ended, the body was executed exactly n times,
\* inst_p is past the loop-exit, the cell is 0 and the jump stack is back at
\* the depth it had before the loop was entered, 0.
C13_CountdownLoop ==
    CountdownDone =>
        /\ Executions(1) = tape0[1].val
        /\ inst_p.val = Len(heap[exec_t])
        /\ CellAt(heap[data_t], 0) = PyInt(0)
        /\ _len_jump_s = 0

----------------------------------------------------------------------------
\* the engine was started on CopyProgram with the data tape [0]
CopyRun == heap[exec_t] = CopyProgram /\ tape0 = <<PyInt(0)>>

----------------------------------------------------------------------------
\* C15: a write_data_t of an int with data_p inside the data tape raises
\* nothing and changes the cell at data_p to the value and nothing else of
\* the tape, its length counter, data_p, the data stack and its depth; a
\* read_data_t right after it returns the value.
C15_Step ==
    /\ (/\ op' = "write_data_t"
        /\ arg'.type = "int"
        /\ data_p # Unbound
        /\ data_p.val < Len(heap[data_t])) =>
           /\ raised' = "none"
           /\ heap'[data_t'] = [heap[data_t] EXCEPT ![data_p.val + 1] = arg']
           /\ UNCHANGED <<data_t, _len_data_t, data_p, data_s, _len_data_s>>
    /\ (op = "write_data_t" /\ raised = "none" /\ op' = "read_data_t") =>
           /\ raised' = "none"
           /\ ret' = arg

C15_WriteThenRead == [][C15_Step]_vars

\* 1 was written to the first of two cells, the second holds 0, and the
\* data stack holds a value
C15_Witness ==
    /\ op = "write_data_t"
    /\ raised = "none"
    /\ arg = PyInt(1)
    /\ heap[data_t] = <<PyInt(1), PyInt(0)>>
    /\ _len_data_s > 0

\* C16: _len_data_t is the length of the list data_t and _len_exec_t the
\* length of the list exec_t.
C16_LengthsAgree ==
    /\ _len_data_t = Len(heap[data_t])
    /\ _len_exec_t = Len(heap[exec_t])

\* a list of MaxLen cells was loaded as both tapes and then written to
C16_Witness ==
    /\ op = "write_data_t"
    /\ raised = "none"
    /\ data_t = exec_t
    /\ _len_exec_t = MaxLen

\* C17: load_data_tape leaves the executable tape, its length counter,
\* inst_p, the data stack and the jump stack with their depths and the other
\* registers as they were; load_executable_tape leaves the data tape, its
\* length counter, data_p and the same stacks and registers as they were.
C17_Step ==
    /\ (op' = "load_data_tape") =>
           /\ heap'[exec_t'] = heap[exec_t]
           /\ UNCHANGED <<exec_t, _len_exec_t, inst_p, data_s, _len_data_s,
                          jump_s, _len_jump_s, jump_p, auxi_r>>
    /\ (op' = "load_executable_tape") =>
           /\ heap'[data_t'] = heap[data_t]
           /\ UNCHANGED <<data_t, _len_data_t, data_p, data_s, _len_data_s,
                          jump_s, _len_jump_s, jump_p, auxi_r>>

C17_LoadFrame == [][C17_Step]_vars

\* load_executable_tape ran on a machine with a full data stack and the
\* data tape and data_p still as __init__ left them
C17_Witness ==
    /\ op = "load_executable_tape"
    /\ _len_data_s = MaxDepth
    /\ data_t = InitDataT
    /\ data_p = Unbound
    /\ exec_t # data_t

\* C18: push_data_s and pop_data_s leave both tapes, both tape length
\* counters, data_p, inst_p and the jump stack with its depth as they were.
C18_Step ==
    (op' \in {"push_data_s", "pop_data_s"}) =>
        UNCHANGED <<heap, data_t, exec_t, _len_data_t, _len_exec_t,
                    data_p, inst_p, jump_s, _len_jump_s>>

C18_StackFrame == [][C18_Step]_vars

\* a value was popped on a machine that both loads had loaded
C18_Witness ==
    /\ op = "pop_data_s"
    /\ pre_len_data_s > 0
    /\ data_p = PyInt(0)
    /\ inst_p = PyInt(0)
    /\ _len_data_t = MaxLen

====
